---- MODULE Spec2Model ----
(***************************************************************************)
(* PluginApiController (plugins/pencilblue/controllers/api/plugins/        *)
(* plugin_api.js): validation and dispatch of {action, id} requests to the *)
(* install, uninstall, reset_settings, initialize and set_theme handlers.  *)
(*                                                                         *)
(* Every request r is one run of render.  JavaScript runs a handler or a   *)
(* callback to completion, so an action of the model is one synchronous    *)
(* stretch of code: render with the synchronous part of the handler it     *)
(* dispatches to, or one callback of a collaborator.  The collaborators    *)
(* (plugin lookup, plugin initializer, settings store) answer with any of  *)
(* the outcomes their interface allows.                                    *)
(***************************************************************************)
EXTENDS Integers, Sequences, FiniteSets, TLC

\* ------------------------------------------------------------------ bounds
MaxReqs == 2
\* longest validationErrors array of an error
MaxSubErrors == 2

Reqs == 1..MaxReqs

\* ------------------------------------------------------- program constants
API_SUCCESS == 0
API_FAILURE == 1
\* cb({content: content}) carries no code property
CodeAbsent == 0

DEFAULT_THEME == "default"

\* own keys of the VALID_ACTIONS literal
VALID_ACTIONS == {"install", "uninstall", "reset_settings", "initialize", "set_theme"}

\* properties every object literal inherits from Object.prototype
ObjectPrototypeFunctions == {"constructor", "toString"}
ObjectPrototypeObjects == {"__proto__"}

\* identifiers bound in the scope of the module function
Declared == {"async", "pb", "util", "BaseController", "PluginService",
             "RequestHandler", "PluginUninstallJob", "PluginInstallJob",
             "PluginApiController", "VALID_ACTIONS"}

\* --------------------------------------------------------------- inputs
Actions == VALID_ACTIONS \cup ObjectPrototypeFunctions \cup ObjectPrototypeObjects
             \cup {"", " ", "render", "bogus"}
Ids == {"", " ", "plugin-x", DEFAULT_THEME}
Blank == {"", " "}

NullErr == [isError |-> FALSE, message |-> "", validationErrors |-> <<>>]
Err(m) == [isError |-> TRUE, message |-> m, validationErrors |-> <<>>]

NoPlugin == [found |-> FALSE, uid |-> "", theme |-> "undefined"]
Plugins(uid) == [found : {TRUE}, uid : {uid, "plugin-y"}, theme : {"undefined", "object"}]

\* what getPluginBySite(uid, cb) can call back with
LookupResults(uid) ==
    {[err |-> Err("lookup failed"), plugin |-> NoPlugin],
     [err |-> NullErr, plugin |-> NoPlugin]}
    \cup {[err |-> NullErr, plugin |-> p] : p \in Plugins(uid)}

NoReq == [action |-> "", id |-> ""]
NoCalls == [getPluginBySite |-> 0, initPlugin |-> 0, set |-> 0,
            resetSettings |-> 0, resetThemeSettings |-> 0]

NoLookup == [err |-> NullErr, plugin |-> NoPlugin]

\* details === null, and what PluginDetailsLoader.load can return
NullDetails == [loaded |-> FALSE, theme |-> "undefined", settings |-> "undefined"]
DetailsResults ==
    {NullDetails,
     [loaded |-> TRUE, theme |-> "undefined", settings |-> "undefined"],
     [loaded |-> TRUE, theme |-> "object", settings |-> "undefined"],
     [loaded |-> TRUE, theme |-> "object", settings |-> "array"]}

\* errors carrying a validationErrors array
SubErrors == [message : {"v1", "v2"}]
ValidationFailures ==
    {[isError |-> TRUE, message |-> "validation failed", validationErrors |-> ve] :
        ve \in UNION {[1..n -> SubErrors] : n \in 1..MaxSubErrors}}

\* what resetSettings and resetThemeSettings can call back with
ResetErrors == {NullErr, Err("reset failed")} \cup ValidationFailures

\* pc          where the request is: "new", waiting for a collaborator's
\*             callback, or "end" (nothing of it is left to run)
\* req         pathVars of the request
\* resp        the arguments cb was called with, in order
\* thrown      the exception that left render or one of its callbacks
\* served404   calls of reqHandler.serve404
\* invoked     the property of the controller that render called
\* jobs        the job objects constructed
\* calls       calls made to the plugin service and the settings store
\* lookup      what getPluginBySite called back with
\* lastErr     the error of the latest initPlugin or settings.set callback
\* theme       set_theme's local variable theme
\* activeTheme the active_theme setting in the store
\* details     reset_settings' local variable details
\* resets      the reset operations called, with the details passed
\* globals     identifiers bound in the global scope of the process
VARIABLES pc, req, resp, thrown, served404, invoked, jobs, calls, lookup,
          lastErr, theme, activeTheme, details, resets, globals

vars == <<pc, req, resp, thrown, served404, invoked, jobs, calls, lookup,
          lastErr, theme, activeTheme, details, resets, globals>>

\* ------------------------------------------------------------- helpers
isError(e) == e.isError

isNonEmptyStr(v, required) == v \notin Blank

format(key, uid) == <<key, uid>>

g(key) == key

apiResponse(status, message, data) ==
    [status |-> status, message |-> message, data |-> data]

\* VALID_ACTIONS[action]: own key, inherited property or undefined
ValidActionsLookup(a) ==
    IF a \in VALID_ACTIONS THEN "true"
    ELSE IF a \in ObjectPrototypeFunctions THEN "function"
    ELSE IF a \in ObjectPrototypeObjects THEN "object"
    ELSE "undefined"

Truthy(v) == v \in {"true", "function", "object"}

\* this[action] on a PluginApiController
ThisLookup(a) ==
    IF a \in VALID_ACTIONS THEN "handler"
    ELSE IF a \in ObjectPrototypeFunctions THEN "function"
    ELSE IF a \in ObjectPrototypeObjects THEN "object"
    ELSE IF a = "render" THEN "handler"
    ELSE "undefined"

Resolves(name) == name \in Declared \cup globals

\* the identifier is not validated
Validate_NoIdentifierCheck(a, i) ==
    IF ~isNonEmptyStr(a, TRUE) \/ ValidActionsLookup(a) = "undefined"
    THEN <<g("generic.VALID_ACTION_REQUIRED")>> ELSE <<>>

\* render, lines 80-88: the validation errors
Validate(a, i) ==
    (IF ~isNonEmptyStr(a, TRUE) \/ ValidActionsLookup(a) = "undefined"
        THEN <<g("generic.VALID_ACTION_REQUIRED")>> ELSE <<>>)
    \o
    (IF Truthy(ValidActionsLookup(a)) /\ ~isNonEmptyStr(i, TRUE)
        THEN <<g("generic.VALID_IDENTIFIER_REQUIRED")>> ELSE <<>>)

\* ------------------------------------------------------------- jobs
createName(kind, uid) == <<kind, uid>>

NewJob(r, kind, uid, initiator) ==
    [owner |-> r, kind |-> kind, name |-> createName(kind, uid), pluginUid |-> uid,
     initiator |-> initiator, state |-> "Created", runAsInitiator |-> "unset",
     ops |-> <<>>, id |-> Len(jobs) + 1]

JobStarted(j, asInitiator) ==
    [j EXCEPT !.state = "Running",
              !.runAsInitiator = IF asInitiator THEN "true" ELSE "false",
              !.ops = <<"init", "setRunAsInitiator", "run">>]

\* the state after construction, but for the global scope
Constructed ==
    /\ pc = [r \in Reqs |-> "new"]
    /\ req = [r \in Reqs |-> NoReq]
    /\ resp = [r \in Reqs |-> <<>>]
    /\ thrown = [r \in Reqs |-> "none"]
    /\ served404 = [r \in Reqs |-> 0]
    /\ invoked = [r \in Reqs |-> "none"]
    /\ jobs = <<>>
    /\ calls = [r \in Reqs |-> NoCalls]
    /\ lookup = [r \in Reqs |-> NoLookup]
    /\ lastErr = [r \in Reqs |-> NullErr]
    /\ theme = [r \in Reqs |-> ""]
    /\ activeTheme = DEFAULT_THEME
    /\ details = [r \in Reqs |-> NullDetails]
    /\ resets = [r \in Reqs |-> <<>>]

\* the global scope binds none of the free identifiers of the module
Init == Constructed /\ globals = {}

\* ----------------------------------------------------- handlers (sync part)
\* install, lines 106-123
Install(r, uid) ==
    LET job == NewJob(r, "install", uid, TRUE) IN
    IF ~Resolves("name")
    THEN /\ jobs' = Append(jobs, job)
         /\ thrown' = [thrown EXCEPT ![r] = "ReferenceError"]
         /\ pc' = [pc EXCEPT ![r] = "end"]
         /\ UNCHANGED <<resp, calls>>
    ELSE /\ jobs' = Append(jobs, JobStarted(job, TRUE))
         /\ resp' = [resp EXCEPT ![r] = Append(@,
                [content |-> apiResponse(API_SUCCESS, "", job.id), code |-> CodeAbsent])]
         /\ pc' = [pc EXCEPT ![r] = "end"]
         /\ UNCHANGED <<thrown, calls>>

\* the values options.forCluster could hold
ForClusterValues == {"undefined", "true", "false"}

\* uninstall, lines 131-147
Uninstall(r, uid) ==
    IF ~Resolves("options")
    THEN /\ thrown' = [thrown EXCEPT ![r] = "ReferenceError"]
         /\ pc' = [pc EXCEPT ![r] = "end"]
         /\ UNCHANGED <<jobs, resp, calls>>
    ELSE \E forCluster \in ForClusterValues :
         LET initiator == (forCluster # "false")
             job == NewJob(r, "uninstall", uid, initiator) IN
         /\ jobs' = Append(jobs, JobStarted(job, initiator))
         /\ resp' = [resp EXCEPT ![r] = Append(@,
                [content |-> apiResponse(API_SUCCESS, "", job.id), code |-> CodeAbsent])]
         /\ pc' = [pc EXCEPT ![r] = "end"]
         /\ UNCHANGED <<thrown, calls>>

\* reset_settings, initialize, set_theme up to the getPluginBySite call
StartLookup(r, waiting) ==
    /\ calls' = [calls EXCEPT ![r].getPluginBySite = @ + 1]
    /\ pc' = [pc EXCEPT ![r] = waiting]
    /\ UNCHANGED <<jobs, resp, thrown>>

\* render, line 97: this[action](identifier, cb)
Dispatch(r, a, i) ==
    IF ThisLookup(a) \in {"object", "undefined"}
    THEN /\ thrown' = [thrown EXCEPT ![r] = "TypeError"]
         /\ pc' = [pc EXCEPT ![r] = "end"]
         /\ UNCHANGED <<invoked, jobs, resp, calls>>
    ELSE /\ invoked' = [invoked EXCEPT ![r] = a]
         /\ CASE a = "install" -> Install(r, i)
              [] a = "uninstall" -> Uninstall(r, i)
              [] a = "reset_settings" -> StartLookup(r, "reset_load")
              [] a = "initialize" -> StartLookup(r, "init_load")
              [] a = "set_theme" -> StartLookup(r, "theme_load")
              [] OTHER -> /\ pc' = [pc EXCEPT ![r] = "end"]
                          /\ UNCHANGED <<jobs, resp, thrown, calls>>

\* render, lines 74-98
Render(r) ==
    /\ pc[r] = "new"
    /\ \A q \in Reqs : q < r => pc[q] # "new"
    /\ \E a \in Actions, i \in Ids :
        /\ req' = [req EXCEPT ![r] = [action |-> a, id |-> i]]
        /\ LET errors == Validate(a, i) IN
           IF Len(errors) > 0
           THEN /\ resp' = [resp EXCEPT ![r] = Append(@,
                       [content |-> apiResponse(API_FAILURE, "", errors), code |-> 400])]
                /\ pc' = [pc EXCEPT ![r] = "end"]
                /\ UNCHANGED <<thrown, invoked, jobs, calls>>
           ELSE Dispatch(r, a, i)
    /\ UNCHANGED <<served404, lookup, lastErr, theme, activeTheme, details, resets,
                   globals>>

\* the sub-errors are left out of the data list
SeriesDone_DropsSubErrors(err, uid) ==
    IF isError(err)
    THEN [content |-> apiResponse(API_FAILURE,
                        format(g("generic.RESET_SETTINGS_FAILED"), uid), <<err.message>>),
          code |-> 400]
    ELSE [content |-> apiResponse(API_SUCCESS,
                        format(g("generic.RESET_SETTINGS_SUCCESS"), uid), <<>>),
          code |-> CodeAbsent]

\* ------------------------------------------------- reset_settings pipeline
\* async.series completion callback, lines 189-203
SeriesDone(err, uid) ==
    IF isError(err)
    THEN [content |-> apiResponse(API_FAILURE,
                        format(g("generic.RESET_SETTINGS_FAILED"), uid),
                        <<err.message>> \o [k \in 1..Len(err.validationErrors) |->
                                                err.validationErrors[k].message]),
          code |-> 400]
    ELSE [content |-> apiResponse(API_SUCCESS,
                        format(g("generic.RESET_SETTINGS_SUCCESS"), uid), <<>>),
          code |-> CodeAbsent]

\* the load step does not test the plugin
LoadError_IgnoresMissing(plugin, uid) == NullErr

\* task 1, lines 162-173: the error the load step calls back with
LoadError(plugin, uid) ==
    IF ~plugin.found
    THEN Err(format(g("generic.PLUGIN_NOT_FOUND"), uid))
    ELSE NullErr

\* async.series: a task's error ends the series
SeriesStops(err) == err # NullErr

\* getPluginBySite callback of reset_settings, lines 163-172, and the part
\* of the series it drives
ResetSettingsLoaded(r) ==
    /\ pc[r] = "reset_load"
    /\ \E lk \in LookupResults(req[r].id) :
        /\ lookup' = [lookup EXCEPT ![r] = lk]
        /\ LET err == LoadError(lk.plugin, req[r].id) IN
           IF SeriesStops(err)
           THEN /\ resp' = [resp EXCEPT ![r] = Append(@, SeriesDone(err, req[r].id))]
                /\ pc' = [pc EXCEPT ![r] = "end"]
                /\ UNCHANGED <<thrown, calls, details, resets>>
           ELSE IF ~Resolves("PluginDetailsLoader")
           THEN /\ thrown' = [thrown EXCEPT ![r] = "ReferenceError"]
                /\ pc' = [pc EXCEPT ![r] = "end"]
                /\ UNCHANGED <<resp, calls, details, resets>>
           ELSE \E loaded \in DetailsResults :
                /\ details' = [details EXCEPT ![r] = loaded]
                /\ calls' = [calls EXCEPT ![r].resetSettings = @ + 1]
                /\ resets' = [resets EXCEPT ![r] = Append(@, <<"resetSettings", loaded>>)]
                /\ pc' = [pc EXCEPT ![r] = "reset_settings"]
                /\ UNCHANGED <<resp, thrown>>
    /\ UNCHANGED <<req, served404, invoked, jobs, lastErr, theme, activeTheme, globals>>

\* only the theme is tested, not its settings
SkipsThemeReset_IgnoresSettings(d) == d.theme = "undefined"

\* task 3, line 182: nothing to reset for the theme
SkipsThemeReset(d) == d.theme = "undefined" \/ d.settings = "undefined"

\* resetSettings callback, line 177, and the part of the series it drives:
\* task 3, lines 181-187, and the completion callback
ResetSettingsDone(r) ==
    /\ pc[r] = "reset_settings"
    /\ \E err \in ResetErrors :
        /\ lastErr' = [lastErr EXCEPT ![r] = err]
        /\ IF SeriesStops(err)
           THEN /\ resp' = [resp EXCEPT ![r] = Append(@, SeriesDone(err, req[r].id))]
                /\ pc' = [pc EXCEPT ![r] = "end"]
                /\ UNCHANGED <<thrown, calls, resets>>
           ELSE IF ~details[r].loaded
           THEN /\ thrown' = [thrown EXCEPT ![r] = "TypeError"]
                /\ pc' = [pc EXCEPT ![r] = "end"]
                /\ UNCHANGED <<resp, calls, resets>>
           ELSE IF SkipsThemeReset(details[r])
           THEN /\ resp' = [resp EXCEPT ![r] = Append(@, SeriesDone(NullErr, req[r].id))]
                /\ pc' = [pc EXCEPT ![r] = "end"]
                /\ UNCHANGED <<thrown, calls, resets>>
           ELSE /\ calls' = [calls EXCEPT ![r].resetThemeSettings = @ + 1]
                /\ resets' = [resets EXCEPT ![r] =
                                 Append(@, <<"resetThemeSettings", details[r]>>)]
                /\ pc' = [pc EXCEPT ![r] = "reset_theme"]
                /\ UNCHANGED <<resp, thrown>>
    /\ UNCHANGED <<req, served404, invoked, jobs, lookup, theme, activeTheme, details,
                   globals>>

\* resetThemeSettings callback, line 186, and the completion callback
ResetThemeDone(r) ==
    /\ pc[r] = "reset_theme"
    /\ \E err \in ResetErrors :
        /\ lastErr' = [lastErr EXCEPT ![r] = err]
        /\ resp' = [resp EXCEPT ![r] = Append(@, SeriesDone(err, req[r].id))]
    /\ pc' = [pc EXCEPT ![r] = "end"]
    /\ UNCHANGED <<req, thrown, served404, invoked, jobs, calls, lookup, theme,
                   activeTheme, details, resets, globals>>

\* ------------------------------------------------------------- initialize
\* the lookup failure is reported with the code of an initializer failure
InitLookupFailure_Code400(err, uid) ==
    [content |-> apiResponse(API_FAILURE,
                    format(g("generic.INITIALIZATION_FAILED"), uid), <<err.message>>),
     code |-> 400]

\* lines 217-218
InitLookupFailure(err, uid) ==
    [content |-> apiResponse(API_FAILURE,
                    format(g("generic.INITIALIZATION_FAILED"), uid), <<err.message>>),
     code |-> 500]

\* lines 223-229
InitResult(err, uid) ==
    [content |-> IF isError(err)
                 THEN apiResponse(API_FAILURE,
                        format(g("generic.INITIALIZATION_FAILED"), uid), <<err.message>>)
                 ELSE apiResponse(API_SUCCESS,
                        format(g("generic.INITIALIZATION_SUCCESS"), uid), <<>>),
     code |-> IF isError(err) THEN 400 ELSE 200]

\* getPluginBySite callback of initialize, lines 215-222
InitializeLoaded(r) ==
    /\ pc[r] = "init_load"
    /\ \E lk \in LookupResults(req[r].id) :
        /\ lookup' = [lookup EXCEPT ![r] = lk]
        /\ IF isError(lk.err)
           THEN /\ resp' = [resp EXCEPT ![r] = Append(@, InitLookupFailure(lk.err, req[r].id))]
                /\ pc' = [pc EXCEPT ![r] = "end"]
                /\ UNCHANGED calls
           ELSE /\ calls' = [calls EXCEPT ![r].initPlugin = @ + 1]
                /\ pc' = [pc EXCEPT ![r] = "init_plugin"]
                /\ UNCHANGED resp
    /\ UNCHANGED <<req, thrown, served404, invoked, jobs, lastErr, theme, activeTheme,
                   details, resets, globals>>

\* initPlugin callback, lines 222-230
InitPluginDone(r) ==
    /\ pc[r] = "init_plugin"
    /\ \E err \in {NullErr, Err("init failed")} :
        /\ lastErr' = [lastErr EXCEPT ![r] = err]
        /\ resp' = [resp EXCEPT ![r] = Append(@, InitResult(err, req[r].id))]
    /\ pc' = [pc EXCEPT ![r] = "end"]
    /\ UNCHANGED <<req, thrown, served404, invoked, jobs, calls, lookup, theme,
                   activeTheme, details, resets, globals>>

\* -------------------------------------------------------------- set_theme
\* the default theme gets no exemption from a lookup error
LookupFails_NoDefaultBypass(uid, err) == isError(err)

\* line 245: the lookup error is reported
LookupFails(uid, err) == uid # DEFAULT_THEME /\ isError(err)

\* the theme of a found plugin is not tested
NotATheme_OnlyMissing(uid, plugin) == uid # DEFAULT_THEME /\ ~plugin.found

\* no plugin is ever refused as a theme
NotATheme_Never(uid, plugin) == FALSE

\* line 252: the plugin is not a theme
NotATheme(uid, plugin) ==
    uid # DEFAULT_THEME /\ (~plugin.found \/ plugin.theme # "object")

\* lines 246-247
SetThemeFailure(err, uid) ==
    [content |-> apiResponse(API_FAILURE,
                    format(g("generic.SET_THEME_FAILED"), uid), <<err.message>>),
     code |-> 500]

\* lines 259-266
SetThemeResult(err, uid) ==
    [content |-> IF isError(err)
                 THEN apiResponse(API_FAILURE,
                        format(g("generic.SET_THEME_FAILED"), uid), <<err.message>>)
                 ELSE apiResponse(API_SUCCESS,
                        format(g("generic.SET_THEME_SUCCESS"), uid), <<>>),
     code |-> IF isError(err) THEN 500 ELSE 200]

\* the requested identifier is persisted even when a plugin was found
ResolveTheme_AlwaysUid(uid, plugin) == uid

\* line 257
ResolveTheme(uid, plugin) == IF plugin.found THEN plugin.uid ELSE uid

\* getPluginBySite callback of set_theme, lines 244-258
SetThemeLoaded(r) ==
    /\ pc[r] = "theme_load"
    /\ \E lk \in LookupResults(req[r].id) :
        /\ lookup' = [lookup EXCEPT ![r] = lk]
        /\ LET uid == req[r].id IN
           IF LookupFails(uid, lk.err)
           THEN /\ resp' = [resp EXCEPT ![r] = Append(@, SetThemeFailure(lk.err, uid))]
                /\ pc' = [pc EXCEPT ![r] = "end"]
                /\ UNCHANGED <<served404, calls, theme>>
           ELSE IF NotATheme(uid, lk.plugin)
           THEN /\ served404' = [served404 EXCEPT ![r] = @ + 1]
                /\ pc' = [pc EXCEPT ![r] = "end"]
                /\ UNCHANGED <<resp, calls, theme>>
           ELSE /\ theme' = [theme EXCEPT ![r] = ResolveTheme(uid, lk.plugin)]
                /\ calls' = [calls EXCEPT ![r].set = @ + 1]
                /\ pc' = [pc EXCEPT ![r] = "theme_set"]
                /\ UNCHANGED <<resp, served404>>
    /\ UNCHANGED <<req, thrown, invoked, jobs, lastErr, activeTheme, details, resets,
                   globals>>

\* settings.set callback, lines 258-267; the store holds the new value
\* when the write succeeded
SetThemeDone(r) ==
    /\ pc[r] = "theme_set"
    /\ \E err \in {NullErr, Err("persist failed")} :
        /\ lastErr' = [lastErr EXCEPT ![r] = err]
        /\ activeTheme' = IF isError(err) THEN activeTheme ELSE theme[r]
        /\ resp' = [resp EXCEPT ![r] = Append(@, SetThemeResult(err, req[r].id))]
    /\ pc' = [pc EXCEPT ![r] = "end"]
    /\ UNCHANGED <<req, thrown, served404, invoked, jobs, calls, lookup, theme,
                   details, resets, globals>>

Next ==
    \E r \in Reqs :
        \/ Render(r)
        \/ ResetSettingsLoaded(r)
        \/ InitializeLoaded(r)
        \/ InitPluginDone(r)
        \/ SetThemeLoaded(r)
        \/ SetThemeDone(r)

Spec == Init /\ [][Next]_vars

\* The reset_settings pipeline past its load step.  Line 170 reads the free
\* identifier PluginDetailsLoader, which the module never declares: the
\* steps after it run only in a process whose global scope binds it.
InitLoaderBound == Constructed /\ globals = {"PluginDetailsLoader"}

\* one request at a time: the pipeline shares no state between requests
NextLoaderBound ==
    \E r \in {q \in Reqs : \A o \in Reqs : q <= o} :
        \/ Render(r)
        \/ ResetSettingsLoaded(r)
        \/ ResetSettingsDone(r)
        \/ ResetThemeDone(r)
        \/ InitializeLoaded(r)
        \/ InitPluginDone(r)
        \/ SetThemeLoaded(r)
        \/ SetThemeDone(r)

SpecLoaderBound == InitLoaderBound /\ [][NextLoaderBound]_vars
\* ------------------------------------------------------------ properties
Rendered(r) == pc[r] # "new"

Finished(r) == pc[r] = "end"

LookupReturned(r) ==
    calls[r].getPluginBySite = 1 /\ pc[r] \notin {"new", "reset_load", "init_load", "theme_load"}

JobsOf(r) == {k \in 1..Len(jobs) : jobs[k].owner = r}

IsFailure(arg, code) == arg.code = code /\ arg.content.status = API_FAILURE

IsSuccess(arg) == arg.content.status = API_SUCCESS

Contains(seq, m) == \E k \in 1..Len(seq) : seq[k] = m

\* C1: a request whose action is not one of the five table actions gets
\* exactly one Failure envelope with code 400 holding the 'invalid action'
\* message; render calls nothing on the controller, and no job, lookup,
\* settings or plugin operation is started.
C1_UnknownActionRejected ==
    \A r \in Reqs :
        (Rendered(r) /\ req[r].action \notin VALID_ACTIONS) =>
            /\ Len(resp[r]) = 1
            /\ IsFailure(resp[r][1], 400)
            /\ Contains(resp[r][1].content.data, g("generic.VALID_ACTION_REQUIRED"))
            /\ invoked[r] = "none"
            /\ JobsOf(r) = {}
            /\ calls[r] = NoCalls

\* C2: a request for one of the five table actions with an empty or blank
\* identifier gets a Failure envelope with code 400 holding the 'missing
\* identifier' message, and its handler is not invoked.
C2_MissingIdentifier ==
    \A r \in Reqs :
        (Rendered(r) /\ req[r].action \in VALID_ACTIONS /\ req[r].id \in Blank) =>
            /\ Len(resp[r]) = 1
            /\ IsFailure(resp[r][1], 400)
            /\ Contains(resp[r][1].content.data, g("generic.VALID_IDENTIFIER_REQUIRED"))
            /\ invoked[r] = "none"
            /\ JobsOf(r) = {}
            /\ calls[r] = NoCalls

C2_Witness ==
    \E r \in Reqs :
        /\ Finished(r) /\ req[r].action = "set_theme" /\ req[r].id = " "
        /\ Len(resp[r]) = 1 /\ resp[r][1].code = 400

\* C3: cb is never called twice for a request, and a request that has
\* nothing left to run has had cb called exactly once.
C3_ExactlyOneResponse ==
    \A r \in Reqs :
        /\ Len(resp[r]) <= 1
        /\ Finished(r) => Len(resp[r]) = 1

\* C4: a validated install request has created a job that runs as
\* initiator and is started, and cb got the Success envelope whose data is
\* that job's id.
C4_InstallStartsJob ==
    \A r \in Reqs :
        (Finished(r) /\ req[r].action = "install" /\ req[r].id \notin Blank) =>
            \E k \in JobsOf(r) :
                /\ JobsOf(r) = {k}
                /\ jobs[k].kind = "install" /\ jobs[k].pluginUid = req[r].id
                /\ jobs[k].state = "Running" /\ jobs[k].runAsInitiator = "true"
                /\ Len(resp[r]) = 1
                /\ IsSuccess(resp[r][1]) /\ resp[r][1].content.data = jobs[k].id

\* C5: a validated uninstall request has created an uninstall job that is
\* started, as initiator unless the cluster flag is false, and cb got the
\* Success envelope whose data is that job's id.
C5_UninstallStartsJob ==
    \A r \in Reqs :
        (Finished(r) /\ req[r].action = "uninstall" /\ req[r].id \notin Blank) =>
            \E k \in JobsOf(r) :
                /\ JobsOf(r) = {k}
                /\ jobs[k].kind = "uninstall" /\ jobs[k].pluginUid = req[r].id
                /\ jobs[k].state = "Running" /\ jobs[k].runAsInitiator \in {"true", "false"}
                /\ Len(resp[r]) = 1
                /\ IsSuccess(resp[r][1]) /\ resp[r][1].content.data = jobs[k].id

\* C6: no exception leaves render or one of its callbacks.
C6_NoUncaughtException == \A r \in Reqs : thrown[r] = "none"

\* C7: in reset_settings, when the lookup returned no plugin, resetSettings
\* and resetThemeSettings are not called and cb gets one Failure envelope
\* with code 400 whose data is the 'plugin not found' message formatted with
\* the requested id.
C7_LoadFailureSkipsResets ==
    \A r \in Reqs :
        (req[r].action = "reset_settings" /\ LookupReturned(r) /\ ~lookup[r].plugin.found) =>
            /\ calls[r].resetSettings = 0
            /\ calls[r].resetThemeSettings = 0
            /\ thrown[r] = "none"
            /\ Len(resp[r]) = 1
            /\ IsFailure(resp[r][1], 400)
            /\ resp[r][1].content.data = <<format(g("generic.PLUGIN_NOT_FOUND"), req[r].id)>>

C7_Witness ==
    \E r \in Reqs :
        /\ req[r].action = "reset_settings" /\ req[r].id = "plugin-x"
        /\ LookupReturned(r) /\ ~lookup[r].plugin.found /\ ~isError(lookup[r].err)
        /\ Finished(r) /\ Len(resp[r]) = 1

\* C8: in set_theme with the default-theme sentinel, serve404 is never
\* called and no lookup failure is reported, whatever the lookup returned;
\* settings.set is always called, with the sentinel when no plugin was
\* found, and a successful write gives the Success envelope with code 200.
C8_DefaultThemeBypass ==
    \A r \in Reqs :
        (req[r].action = "set_theme" /\ req[r].id = DEFAULT_THEME) =>
            /\ served404[r] = 0
            /\ \A k \in 1..Len(resp[r]) : resp[r][k] # SetThemeFailure(lookup[r].err, req[r].id)
            /\ LookupReturned(r) =>
                /\ calls[r].set = 1
                /\ ~lookup[r].plugin.found => theme[r] = DEFAULT_THEME
            /\ (Finished(r) /\ ~isError(lastErr[r])) =>
                /\ Len(resp[r]) = 1
                /\ IsSuccess(resp[r][1]) /\ resp[r][1].code = 200

C8_Witness ==
    \E r \in Reqs :
        /\ req[r].action = "set_theme" /\ req[r].id = DEFAULT_THEME
        /\ Finished(r) /\ isError(lookup[r].err) /\ ~isError(lastErr[r])
        /\ activeTheme = DEFAULT_THEME /\ Len(resp[r]) = 1

\* C9: in set_theme with another identifier, a lookup without error that
\* returned no plugin, or a plugin whose theme is not an object, ends in one
\* serve404 call and no envelope; a lookup error ends in one Failure
\* envelope with code 500 and no serve404 call.
C9_NotFoundSignal ==
    \A r \in Reqs :
        (req[r].action = "set_theme" /\ req[r].id # DEFAULT_THEME /\ LookupReturned(r)) =>
            /\ (~isError(lookup[r].err)
                    /\ (~lookup[r].plugin.found \/ lookup[r].plugin.theme # "object")) =>
                /\ served404[r] = 1 /\ resp[r] = <<>> /\ calls[r].set = 0
            /\ isError(lookup[r].err) =>
                /\ served404[r] = 0 /\ calls[r].set = 0
                /\ Len(resp[r]) = 1 /\ IsFailure(resp[r][1], 500)

C9_Witness ==
    \E r, q \in Reqs :
        /\ req[r].action = "set_theme" /\ req[r].id = "plugin-x" /\ Finished(r)
        /\ lookup[r].plugin.found /\ lookup[r].plugin.theme = "undefined"
        /\ served404[r] = 1
        /\ req[q].action = "set_theme" /\ req[q].id = "plugin-x" /\ Finished(q)
        /\ isError(lookup[q].err) /\ Len(resp[q]) = 1

\* C10: in initialize, a lookup error gives the Failure envelope with code
\* 500 and data [error.message] and initPlugin is not called; otherwise
\* initPlugin is called once and cb gets Failure with code 400 when it
\* reported an error, else Success with code 200.
C10_Initialize ==
    \A r \in Reqs :
        (req[r].action = "initialize" /\ LookupReturned(r)) =>
            IF isError(lookup[r].err)
            THEN /\ calls[r].initPlugin = 0
                 /\ Len(resp[r]) = 1
                 /\ IsFailure(resp[r][1], 500)
                 /\ resp[r][1].content.data = <<lookup[r].err.message>>
            ELSE /\ calls[r].initPlugin = 1
                 /\ ~Finished(r) => resp[r] = <<>>
                 /\ Finished(r) =>
                     /\ Len(resp[r]) = 1
                     /\ IF isError(lastErr[r])
                        THEN IsFailure(resp[r][1], 400)
                        ELSE IsSuccess(resp[r][1]) /\ resp[r][1].code = 200

C10_Witness ==
    \E r, q \in Reqs :
        /\ req[r].action = "initialize" /\ Finished(r) /\ isError(lookup[r].err)
        /\ req[q].action = "initialize" /\ Finished(q) /\ ~isError(lookup[q].err)
        /\ isError(lastErr[q]) /\ calls[q].initPlugin = 1
\* C15: in set_theme, the value passed to settings.set is the uid of the
\* plugin the lookup returned, or the requested identifier when it returned
\* none; a successful write gives the Success envelope with code 200 and
\* a write error the Failure envelope with code 500.
C15_PersistedTheme ==
    \A r \in Reqs :
        (req[r].action = "set_theme" /\ calls[r].set = 1) =>
            /\ theme[r] = IF lookup[r].plugin.found THEN lookup[r].plugin.uid ELSE req[r].id
            /\ Finished(r) =>
                /\ Len(resp[r]) = 1
                /\ IF isError(lastErr[r])
                   THEN IsFailure(resp[r][1], 500)
                   ELSE IsSuccess(resp[r][1]) /\ resp[r][1].code = 200

C15_Witness ==
    \E r, q \in Reqs :
        /\ req[r].action = "set_theme" /\ req[r].id = "plugin-x" /\ Finished(r)
        /\ lookup[r].plugin.found /\ lookup[r].plugin.uid = "plugin-y"
        /\ theme[r] = "plugin-y" /\ ~isError(lastErr[r]) /\ Len(resp[r]) = 1
        /\ req[q].action = "set_theme" /\ req[q].id = DEFAULT_THEME /\ Finished(q)
        /\ ~lookup[q].plugin.found /\ theme[q] = DEFAULT_THEME /\ isError(lastErr[q])

\* the request may write the active_theme setting
MayWriteTheme(r) ==
    /\ req[r].action = "set_theme"
    /\ \/ req[r].id = DEFAULT_THEME
       \/ /\ ~isError(lookup[r].err)
          /\ lookup[r].plugin.found /\ lookup[r].plugin.theme = "object"

\* a set_theme request calls settings.set at most once, and only when it
\* may write the setting
WriteOnlyWhenEligible ==
    \A r \in Reqs :
        /\ calls[r].set <= 1
        /\ calls[r].set = 1 => (LookupReturned(r) /\ MayWriteTheme(r))

\* the setting changes only in the settings.set callback of a request that
\* may write it, to the theme that request passed
WriteByEligibleRequest ==
    activeTheme' # activeTheme =>
        \E r \in Reqs :
            /\ pc[r] = "theme_set" /\ pc'[r] = "end"
            /\ MayWriteTheme(r) /\ calls[r].set = 1
            /\ activeTheme' = theme[r]

\* C18: a set_theme request calls settings.set at most once, and only when
\* the identifier is the default-theme sentinel or the lookup returned,
\* without error, a plugin whose theme is an object; the active_theme
\* setting changes only by that write, so the lookup-error and not-found
\* paths leave it unchanged.
C18_ActiveThemeFrame ==
    []WriteOnlyWhenEligible /\ [][WriteByEligibleRequest]_vars

C18_Witness ==
    \E r, q \in Reqs :
        /\ req[r].action = "set_theme" /\ req[r].id = "plugin-x" /\ Finished(r)
        /\ calls[r].set = 1 /\ ~isError(lastErr[r]) /\ activeTheme = theme[r]
        /\ activeTheme # DEFAULT_THEME
        /\ req[q].action = "set_theme" /\ req[q].id = "plugin-x" /\ Finished(q)
        /\ served404[q] = 1 /\ calls[q].set = 0

\* the validation envelope of a request, if render answered with one
ValidationErrors(r) ==
    IF Len(resp[r]) > 0 /\ invoked[r] = "none" /\ resp[r][1].code = 400
    THEN resp[r][1].content.data ELSE <<>>

\* C20: the validation error list has at most two entries, 'invalid
\* action' comes before 'missing identifier', and 'missing identifier' is
\* not emitted for an action outside the five table actions.
C20_ValidationList ==
    \A r \in Reqs :
        LET errors == ValidationErrors(r) IN
        /\ Len(errors) <= 2
        /\ \A j, k \in 1..Len(errors) :
            (errors[j] = g("generic.VALID_ACTION_REQUIRED")
                /\ errors[k] = g("generic.VALID_IDENTIFIER_REQUIRED")) => j < k
        /\ Contains(errors, g("generic.VALID_IDENTIFIER_REQUIRED"))
                => req[r].action \in VALID_ACTIONS

\* a validated install or uninstall request
JobRequest(r) ==
    req[r].action \in {"install", "uninstall"} /\ req[r].id \notin Blank

\* C11: in install and uninstall the job is initialised, set to run as
\* initiator and run, in that order; cb is called only after run, and it is
\* called while the job is still running.
C11_JobOrder ==
    \A r \in Reqs :
        JobRequest(r) =>
            /\ \A k \in JobsOf(r) :
                \E n \in 0..3 : jobs[k].ops = SubSeq(<<"init", "setRunAsInitiator", "run">>, 1, n)
            /\ Len(resp[r]) > 0 =>
                \E k \in JobsOf(r) : jobs[k].ops = <<"init", "setRunAsInitiator", "run">>
            /\ Finished(r) =>
                /\ Len(resp[r]) = 1
                /\ \E k \in JobsOf(r) : jobs[k].state = "Running"

\* C16: the response to an install or uninstall request is the Success
\* envelope with the id of the request's job, whatever state the job is
\* in, and nothing is added to it afterwards.
C16_ResponseIgnoresJobOutcome ==
    \A r \in Reqs :
        (JobRequest(r) /\ Finished(r)) =>
            \E k \in JobsOf(r) :
                /\ jobs[k].state \in {"Running", "Completed", "Failed"}
                /\ resp[r] = <<[content |-> apiResponse(API_SUCCESS, "", jobs[k].id),
                                code |-> CodeAbsent]>>

\* C17: validated install and uninstall requests for the same plugin each
\* get a job of their own that is run, and each response carries the id of
\* the request's own job.
C17_NoDeduplication ==
    \A r, q \in Reqs :
        (r # q /\ JobRequest(r) /\ JobRequest(q) /\ req[r].id = req[q].id
              /\ Finished(r) /\ Finished(q)) =>
            \E k \in JobsOf(r), m \in JobsOf(q) :
                /\ k # m /\ jobs[k].id # jobs[m].id
                /\ "run" \in {jobs[k].ops[n] : n \in 1..Len(jobs[k].ops)}
                /\ "run" \in {jobs[m].ops[n] : n \in 1..Len(jobs[m].ops)}
                /\ Len(resp[r]) = 1 /\ resp[r][1].content.data = jobs[k].id
                /\ Len(resp[q]) = 1 /\ resp[q][1].content.data = jobs[m].id

\* ---------------------------------------------- reset_settings properties
ResetRequest(r) == req[r].action = "reset_settings" /\ req[r].id \notin Blank

\* the names of the reset operations called, in order
ResetOps(r) == [k \in 1..Len(resets[r]) |-> resets[r][k][1]]

\* the resetSettings step has called back without error
SettingsStepPassed(r) ==
    /\ calls[r].resetSettings = 1
    /\ pc[r] \in {"reset_theme", "end"}
    /\ calls[r].resetThemeSettings = 1 \/ ~isError(lastErr[r])

\* the error that ended the pipeline
PrimaryError(r) ==
    IF ~lookup[r].plugin.found
    THEN Err(format(g("generic.PLUGIN_NOT_FOUND"), req[r].id))
    ELSE lastErr[r]

\* C12: the reset_settings pipeline runs Load, ResetSettings and
\* ResetThemeSettings in that order, each after the previous step called
\* back: once Load has called back without error ResetSettings is started,
\* a step that called back with an error starts no later step, and the
\* finished request has one response, Failure with code 400 after an
\* error and never Success.
C12_SequentialPipeline ==
    \A r \in Reqs :
        (ResetRequest(r) /\ LookupReturned(r)) =>
            /\ \E n \in 0..2 : ResetOps(r) = SubSeq(<<"resetSettings", "resetThemeSettings">>, 1, n)
            /\ IF ~lookup[r].plugin.found
               THEN /\ ResetOps(r) = <<>>
                    /\ Len(resp[r]) = 1 /\ IsFailure(resp[r][1], 400)
               ELSE /\ Len(ResetOps(r)) >= 1
                    /\ thrown[r] = "none"
                    /\ Finished(r) => Len(resp[r]) = 1
                    /\ (Finished(r) /\ isError(lastErr[r])) => IsFailure(resp[r][1], 400)
                    /\ (isError(lastErr[r]) /\ Len(ResetOps(r)) = 1) => Finished(r)

====
